---- MODULE Spec2Model ----
(***************************************************************************)
(* Sales-training ROI calculator (src/app.py): the SalesROICalculator      *)
(* object, its calculate_roi engine and the reporting operations around    *)
(* it.                                                                     *)
(*                                                                         *)
(* Numbers.  The engine computes with Python floats (IEEE-754 binary64,    *)
(* round to nearest, ties to even) and Python ints.  A number is modelled  *)
(* exactly as the value the interpreter holds:                             *)
(*     [k |-> "fin", s |-> sign, m |-> mantissa, e |-> exponent]           *)
(* stands for (-1)^s * m * 2^e, with m a natural number kept as a          *)
(* little-endian sequence of base-2^15 limbs, odd unless the number is 0;  *)
(* k = "inf" and k = "nan" are the two non-finite floats.  Every float     *)
(* operation computes the exact result and rounds it to 53 significant     *)
(* bits, as the hardware does.  -0.0 is kept as 0: the engine never        *)
(* divides by a zero and compares with ==, < and >, for which the two      *)
(* zeros are the same number.                                              *)
(***************************************************************************)
EXTENDS Integers, Sequences, FiniteSets, TLC

(***************************************************************************)
(* The(S) is the element of the one-element set S.  The({e : x \in {v}})   *)
(* is e with x standing for the value of v: the value is computed once,    *)
(* where it is bound, however often e uses it.                             *)
(***************************************************************************)
The(S) == CHOOSE x \in S : TRUE

(***************************************************************************)
(* Natural numbers of any size (the mantissas of the exact results).       *)
(***************************************************************************)
LimbBits == 15
Base == 2^LimbBits

Max(a, b) == IF a >= b THEN a ELSE b
Min(a, b) == IF a <= b THEN a ELSE b

Limb(a, i) == IF i <= Len(a) THEN a[i] ELSE 0

RECURSIVE NormLen(_, _)
NormLen(a, n) ==
  IF n = 0 THEN 0 ELSE IF a[n] = 0 THEN NormLen(a, n - 1) ELSE n

\* a without its leading zero limbs.
BNorm(a0) == The({ SubSeq(a, 1, NormLen(a, Len(a))) : a \in {a0} })

RECURSIVE BFromNat(_)
BFromNat(n0) ==
  The({ IF n = 0 THEN <<>> ELSE <<n % Base>> \o BFromNat(n \div Base) :
        n \in {n0} })

RECURSIVE NatBitLen(_)
NatBitLen(n0) ==
  The({ IF n = 0 THEN 0 ELSE 1 + NatBitLen(n \div 2) : n \in {n0} })

RECURSIVE NatTrailingZeros(_)
NatTrailingZeros(n0) ==
  The({ IF n % 2 = 1 THEN 0 ELSE 1 + NatTrailingZeros(n \div 2) : n \in {n0} })

BBitLen(a0) ==
  The({ IF a = <<>> THEN 0
        ELSE LimbBits * (Len(a) - 1) + NatBitLen(a[Len(a)]) : a \in {a0} })

\* Bit n (counted from 0) of a.
BBit(a0, n0) ==
  The({ (Limb(a, (n \div LimbBits) + 1) \div 2^(n % LimbBits)) % 2 :
        a \in {a0}, n \in {n0} })

RECURSIVE BAddC(_, _, _, _)
BAddC(a, b, i, c) ==
  IF i > Len(a) /\ i > Len(b) THEN (IF c = 0 THEN <<>> ELSE <<c>>)
  ELSE The({ <<t % Base>> \o BAddC(a, b, j, t \div Base) :
             t \in {Limb(a, i) + Limb(b, i) + c}, j \in {i + 1} })

BAdd(a0, b0) == The({ BAddC(a, b, 1, 0) : a \in {a0}, b \in {b0} })

RECURSIVE BSubC(_, _, _, _)
BSubC(a, b, i, c) ==
  IF i > Len(a) THEN <<>>
  ELSE The({ IF t < 0 THEN <<t + Base>> \o BSubC(a, b, j, 1)
                      ELSE <<t>> \o BSubC(a, b, j, 0) :
             t \in {Limb(a, i) - Limb(b, i) - c}, j \in {i + 1} })

\* a - b, for a >= b.
BSub(a0, b0) == The({ BNorm(BSubC(a, b, 1, 0)) : a \in {a0}, b \in {b0} })

RECURSIVE BCmpAt(_, _, _)
BCmpAt(a, b, i) ==
  IF i = 0 THEN 0
  ELSE IF a[i] > b[i] THEN 1
  ELSE IF a[i] < b[i] THEN -1
  ELSE The({ BCmpAt(a, b, j) : j \in {i - 1} })

\* 1, 0 or -1 as a > b, a = b or a < b.
BCmp(a0, b0) ==
  The({ IF Len(a) > Len(b) THEN 1
        ELSE IF Len(a) < Len(b) THEN -1
        ELSE BCmpAt(a, b, Len(a)) : a \in {a0}, b \in {b0} })

RECURSIVE BMulSmallC(_, _, _, _)
BMulSmallC(a, k, i, c) ==
  IF i > Len(a) THEN (IF c = 0 THEN <<>> ELSE <<c>>)
  ELSE The({ <<t % Base>> \o BMulSmallC(a, k, j, t \div Base) :
             t \in {a[i] * k + c}, j \in {i + 1} })

\* a * k, for 0 <= k <= Base.
BMulSmall(a0, k0) ==
  The({ IF k = 0 THEN <<>> ELSE BMulSmallC(a, k, 1, 0) : a \in {a0}, k \in {k0} })

\* a * Base^n.
ShiftLimbs(a0, n0) ==
  The({ IF a = <<>> THEN <<>> ELSE [i \in 1..n |-> 0] \o a :
        a \in {a0}, n \in {n0} })

RECURSIVE BMulAt(_, _, _)
BMulAt(a, b, i) ==
  IF i > Len(b) THEN <<>>
  ELSE BAdd(BMulSmall(a, b[i]), ShiftLimbs(BMulAt(a, b, i + 1), 1))

BMul(a0, b0) == The({ BMulAt(a, b, 1) : a \in {a0}, b \in {b0} })

\* a * 2^n.
BShl(a0, n0) ==
  The({ ShiftLimbs(BMulSmall(a, 2^(n % LimbBits)), n \div LimbBits) :
        a \in {a0}, n \in {n0} })

RECURSIVE BDivSmallR(_, _, _, _)
BDivSmallR(a, k, i, r) ==
  IF i = 0 THEN <<>>
  ELSE The({ BDivSmallR(a, k, j, t % k) \o <<t \div k>> :
             t \in {r * Base + a[i]}, j \in {i - 1} })

\* a \div k, for 0 < k <= Base.
BDivSmall(a0, k0) ==
  The({ BNorm(BDivSmallR(a, k, Len(a), 0)) : a \in {a0}, k \in {k0} })

RECURSIVE BModSmallR(_, _, _, _)
BModSmallR(a, k, i, r) ==
  IF i = 0 THEN r
  ELSE The({ BModSmallR(a, k, j, t) :
             t \in {(r * Base + a[i]) % k}, j \in {i - 1} })

\* a % k, for 0 < k <= Base.
BModSmall(a0, k0) ==
  The({ BModSmallR(a, k, Len(a), 0) : a \in {a0}, k \in {k0} })

\* a \div 2^n.
BShr(a0, n0) ==
  The({ IF n \div LimbBits >= Len(a) THEN <<>>
        ELSE BDivSmall(SubSeq(a, (n \div LimbBits) + 1, Len(a)),
                       2^(n % LimbBits)) : a \in {a0}, n \in {n0} })

\* Whether a % 2^n is not 0.
BLowNonzero(a0, n0) ==
  The({ \/ \E i \in 1..Min(n \div LimbBits, Len(a)) : a[i] # 0
        \/ Limb(a, (n \div LimbBits) + 1) % 2^(n % LimbBits) # 0 :
        a \in {a0}, n \in {n0} })

RECURSIVE BFirstNonzero(_, _)
BFirstNonzero(a, i) ==
  IF a[i] # 0 THEN i ELSE The({ BFirstNonzero(a, j) : j \in {i + 1} })

\* The number of trailing zero bits of a, for a # 0.
BTrailingZeros(a0) ==
  The({ LimbBits * (i - 1) + NatTrailingZeros(a[i]) :
        <<a, i>> \in {<<a1, BFirstNonzero(a1, 1)>> : a1 \in {a0}} })

RECURSIVE QDigit(_, _, _, _)
\* The largest d < Base with d * b <= r, its bits decided from the top one.
QDigit(r, b, bit, d) ==
  IF bit < 0 THEN d
  ELSE The({ IF BCmp(BMulSmall(b, t), r) <= 0
             THEN QDigit(r, b, next, t)
             ELSE QDigit(r, b, next, d) :
             t \in {d + 2^bit}, next \in {bit - 1} })

\* One step of the long division of a by b: hi is <<quotient, remainder>> of
\* the limbs above limb, r the remainder with limb brought down.
DivStep(hi, r, b) ==
  The({ << <<d>> \o hi[1], BSub(r, BMulSmall(b, d)) >> :
        d \in {QDigit(r, b, LimbBits - 1, 0)} })

RECURSIVE BDivLimbs(_, _, _)
\* Long division: <<quotient, remainder>> of the limbs i.. of a by b.
BDivLimbs(a, b, i) ==
  IF i > Len(a) THEN << <<>>, <<>> >>
  ELSE The({ The({ DivStep(hi, r, b) : r \in {BNorm(<<a[i]>> \o hi[2])} }) :
             hi \in {BDivLimbs(a, b, i + 1)} })

\* <<a \div b, a % b>>, for b # 0.
BDivMod(a0, b0) ==
  The({ IF Len(b) = 1
        THEN <<BDivSmall(a, b[1]), BFromNat(BModSmall(a, b[1]))>>
        ELSE The({ <<BNorm(qr[1]), qr[2]>> : qr \in {BDivLimbs(a, b, 1)} }) :
        a \in {a0}, b \in {b0} })

(***************************************************************************)
(* Python numbers: floats (binary64) and the ints the engine mixes with    *)
(* them.                                                                   *)
(***************************************************************************)
MantBits == 53
MinExp == -1074
MaxExp == 1024

Zero == [k |-> "fin", s |-> 0, m |-> <<>>, e |-> 0]
Inf(s) == [k |-> "inf", s |-> s, m |-> <<>>, e |-> 0]
NaN == [k |-> "nan", s |-> 0, m |-> <<>>, e |-> 0]

\* An operation that raises has the exception in the place of its value; an
\* expression one of whose operands raised raises the same exception.
Raise(exc) == [k |-> "raise", s |-> 0, m |-> <<>>, e |-> 0, exc |-> exc]
Raised(x) == x.k = "raise"

\* The number (-1)^s * m * 2^e, its mantissa made odd.
Mk(s0, m0, e0) ==
  The({ IF m = <<>> THEN Zero
        ELSE The({ [k |-> "fin", s |-> s, m |-> BShr(m, tz), e |-> e + tz] :
                   tz \in {BTrailingZeros(m)} }) :
        s \in {s0}, m \in {m0}, e \in {e0} })

\* A Python int as a number (exact: the ints of the model are below 2^53).
FromInt(n0) ==
  The({ IF n < 0 THEN Mk(1, BFromNat(-n), 0) ELSE Mk(0, BFromNat(n), 0) :
        n \in {n0} })

\* m \div 2^sh rounded to nearest, ties to even, by the bits shifted out.
RoundShift(m, sh) ==
  The({ IF /\ sh > 0
           /\ BBit(m, sh - 1) = 1
           /\ (BLowNonzero(m, sh - 1) \/ BBit(q, 0) = 1)
        THEN BAdd(q, <<1>>) ELSE q : q \in {BShr(m, sh)} })

\* The float nearest to (-1)^s * m * 2^e (ties to even); an infinity past
\* the largest float.
Round(s0, m0, e0) ==
  The({ IF m = <<>> THEN Zero
        ELSE The({ The({ IF BBitLen(r) + e + sh > MaxExp THEN Inf(s)
                         ELSE Mk(s, r, e + sh) : r \in {RoundShift(m, sh)} }) :
                   sh \in {Max(Max(BBitLen(m) - MantBits, MinExp - e), 0)} }) :
        s \in {s0}, m \in {m0}, e \in {e0} })

IsZero(x) == x.k = "fin" /\ x.m = <<>>

Neg(x0) ==
  The({ IF Raised(x) \/ x.k = "nan" \/ IsZero(x) THEN x
        ELSE [x EXCEPT !.s = 1 - x.s] : x \in {x0} })

\* The position of the top bit of a finite number that is not 0.
TopBit(x) == BBitLen(x.m) + x.e

\* The exact comparison of the magnitudes of two finite numbers, neither 0.
CmpMag(x, y) ==
  The({ IF tx > ty THEN 1
        ELSE IF tx < ty THEN -1
        ELSE BCmp(BShl(x.m, x.e - Min(x.e, y.e)),
                  BShl(y.m, y.e - Min(x.e, y.e))) :
        tx \in {TopBit(x)}, ty \in {TopBit(y)} })

\* The exact comparison of two finite numbers: 1, 0 or -1.
CmpFin(x0, y0) ==
  The({ IF IsZero(x) /\ IsZero(y) THEN 0
        ELSE IF IsZero(x) THEN (IF y.s = 0 THEN -1 ELSE 1)
        ELSE IF IsZero(y) THEN (IF x.s = 0 THEN 1 ELSE -1)
        ELSE IF x.s # y.s THEN (IF x.s = 0 THEN 1 ELSE -1)
        ELSE IF x.s = 0 THEN CmpMag(x, y) ELSE -CmpMag(x, y) :
        x \in {x0}, y \in {y0} })

\* x < y as Python decides it (False when either is a NaN).
Lt(x0, y0) ==
  The({ /\ x.k # "nan" /\ y.k # "nan"
        /\ IF x.k = "inf" THEN x.s = 1 /\ ~(y.k = "inf" /\ y.s = 1)
           ELSE IF y.k = "inf" THEN y.s = 0
           ELSE CmpFin(x, y) < 0 : x \in {x0}, y \in {y0} })

Gt(x, y) == Lt(y, x)
Le(x0, y0) ==
  The({ x.k # "nan" /\ y.k # "nan" /\ ~Lt(y, x) : x \in {x0}, y \in {y0} })
Eq(x0, y0) ==
  The({ x.k # "nan" /\ y.k # "nan" /\ ~Lt(x, y) /\ ~Lt(y, x) :
        x \in {x0}, y \in {y0} })

\* The exact sum of two finite numbers, not rounded.
ExactAdd(x0, y0) ==
  The({ IF IsZero(x) THEN y
        ELSE IF IsZero(y) THEN x
        ELSE The({ IF x.s = y.s THEN Mk(x.s, BAdd(a, b), e)
                   ELSE IF BCmp(a, b) >= 0 THEN Mk(x.s, BSub(a, b), e)
                   ELSE Mk(y.s, BSub(b, a), e) :
                   <<a, b, e>> \in
                     { <<BShl(x.m, x.e - e1), BShl(y.m, y.e - e1), e1>> :
                       e1 \in {Min(x.e, y.e)} } }) :
        x \in {x0}, y \in {y0} })

\* The exact product of two finite numbers, not rounded.
ExactMul(x0, y0) ==
  The({ IF IsZero(x) \/ IsZero(y) THEN Zero
        ELSE Mk((x.s + y.s) % 2, BMul(x.m, y.m), x.e + y.e) :
        x \in {x0}, y \in {y0} })

\* float + float.  An addend below a sixteenth of the other's last place
\* cannot move the rounded sum.
FAdd(x0, y0) ==
  The({ IF Raised(x) THEN x
        ELSE IF Raised(y) THEN y
        ELSE IF x.k = "nan" \/ y.k = "nan" THEN NaN
        ELSE IF x.k = "inf" THEN (IF y.k = "inf" /\ y.s # x.s THEN NaN ELSE x)
        ELSE IF y.k = "inf" THEN y
        ELSE IF IsZero(x) THEN y
        ELSE IF IsZero(y) THEN x
        ELSE IF TopBit(x) - TopBit(y) > MantBits + 3 THEN x
        ELSE IF TopBit(y) - TopBit(x) > MantBits + 3 THEN y
        ELSE The({ Round(z.s, z.m, z.e) : z \in {ExactAdd(x, y)} }) :
        x \in {x0}, y \in {y0} })

\* float - float
FSub(x, y) == FAdd(x, Neg(y))

\* float * float
FMul(x0, y0) ==
  The({ IF Raised(x) THEN x
        ELSE IF Raised(y) THEN y
        ELSE IF x.k = "nan" \/ y.k = "nan" THEN NaN
        ELSE IF x.k = "inf" \/ y.k = "inf"
             THEN (IF IsZero(x) \/ IsZero(y) THEN NaN
                   ELSE Inf((x.s + y.s) % 2))
        ELSE IF IsZero(x) \/ IsZero(y) THEN Zero
        ELSE Round((x.s + y.s) % 2, BMul(x.m, y.m), x.e + y.e) :
        x \in {x0}, y \in {y0} })

\* The quotient of the mantissas of x and y to more than MantBits + 2 bits,
\* a last bit added that is 1 when the division left a remainder.
DivMantissa(x, y, sh) ==
  The({ BAdd(BMulSmall(qr[1], 2), IF qr[2] = <<>> THEN <<>> ELSE <<1>>) :
        qr \in {BDivMod(BShl(x.m, sh), y.m)} })

\* float / float; a zero divisor raises ZeroDivisionError.
FDiv(x0, y0) ==
  The({ IF Raised(x) THEN x
        ELSE IF Raised(y) THEN y
        ELSE IF IsZero(y) THEN Raise("ZeroDivisionError")
        ELSE IF x.k = "nan" \/ y.k = "nan" THEN NaN
        ELSE IF x.k = "inf"
             THEN (IF y.k = "inf" THEN NaN ELSE Inf((x.s + y.s) % 2))
        ELSE IF y.k = "inf" \/ IsZero(x) THEN Zero
        ELSE The({ Round((x.s + y.s) % 2, DivMantissa(x, y, sh),
                         x.e - y.e - sh - 1) :
                   sh \in {Max(0, MantBits + 3 + BBitLen(y.m) - BBitLen(x.m))} }) :
        x \in {x0}, y \in {y0} })

\* int(x): the integer part of a finite float, truncated toward zero;
\* int(inf) raises OverflowError and int(nan) ValueError.
Trunc(x0) ==
  The({ IF Raised(x) THEN x
        ELSE IF x.k = "inf" THEN Raise("OverflowError")
        ELSE IF x.k = "nan" THEN Raise("ValueError")
        ELSE IF x.e >= 0 THEN x
        ELSE Mk(x.s, BShr(x.m, -x.e), 0) : x \in {x0} })

(***************************************************************************)
(* TrainingParameters, ROIResults and the engine, calculate_roi.           *)
(***************************************************************************)
None == [none |-> TRUE]

TrainingParameters(participants, cost_per_person, monthly_leads, current_close_rate, target_close_rate, deal_value, margin_rate, training_days, daily_rate) ==
  [participants |-> participants,
   cost_per_person |-> cost_per_person,
   monthly_leads |-> monthly_leads,
   current_close_rate |-> current_close_rate,
   target_close_rate |-> target_close_rate,
   deal_value |-> deal_value,
   margin_rate |-> margin_rate,
   training_days |-> training_days,
   daily_rate |-> daily_rate]

\* The defaults of the dataclass fields training_days and daily_rate.
DefaultTrainingDays == 3
DefaultDailyRate == 400

\* participants * cost_per_person
TrainingCosts(params) ==
  FMul(FromInt(params.participants), params.cost_per_person)

\* The opportunity cost of one day only: training_days left out.
OpportunityCostsPerDay(params) ==
  FMul(FromInt(params.participants), params.daily_rate)

\* participants * training_days * daily_rate (an int product, then a float one)
OpportunityCosts(params) ==
  FMul(FromInt(params.participants * params.training_days), params.daily_rate)

\* monthly_leads * (rate / 100)
Deals(monthly_leads, rate) ==
  FMul(FromInt(monthly_leads), FDiv(rate, FromInt(100)))

\* The training costs alone: the opportunity costs left out.
TotalInvestmentTrainingOnly(training_costs, opportunity_costs) ==
  FAdd(training_costs, Zero)

\* training_costs + opportunity_costs
TotalInvestment(training_costs, opportunity_costs) ==
  FAdd(training_costs, opportunity_costs)

\* The operands the other way round.
AdditionalDealsSwapped(target_deals, current_deals) ==
  FSub(current_deals, target_deals)

\* target_deals - current_deals
AdditionalDeals(target_deals, current_deals) ==
  FSub(target_deals, current_deals)

\* additional_deals * deal_value
MonthlyRevenue(additional_deals, deal_value) ==
  FMul(additional_deals, deal_value)

\* monthly_revenue * (margin_rate / 100)
MonthlyMargin(monthly_revenue, margin_rate) ==
  FMul(monthly_revenue, FDiv(margin_rate, FromInt(100)))

\* monthly_margin * 12
AnnualMargin(monthly_margin) == FMul(monthly_margin, FromInt(12))

\* annual_margin - total_investment
NetBenefit(annual_margin, total_investment) ==
  FSub(annual_margin, total_investment)

\* The division without its guard.
RoiPercentageUnguarded(net_benefit, total_investment) ==
  FMul(FDiv(net_benefit, total_investment), FromInt(100))

\* (net_benefit / total_investment) * 100 if total_investment > 0 else 0
RoiPercentage(net_benefit, total_investment) ==
  IF Gt(total_investment, Zero)
  THEN FMul(FDiv(net_benefit, total_investment), FromInt(100))
  ELSE Zero

\* The guard total_investment != 0 in the place of total_investment > 0.
RoiMultipleUnlessZero(net_benefit, total_investment) ==
  IF ~IsZero(total_investment)
  THEN FDiv(net_benefit, total_investment)
  ELSE Zero

\* net_benefit / total_investment if total_investment > 0 else 0
RoiMultiple(net_benefit, total_investment) ==
  IF Gt(total_investment, Zero)
  THEN FDiv(net_benefit, total_investment)
  ELSE Zero

\* (total_investment / monthly_margin) * 30, the float int() is applied to
PaybackFloat(total_investment, monthly_margin) ==
  FMul(FDiv(total_investment, monthly_margin), FromInt(30))

\* The guard monthly_margin >= 0 in the place of monthly_margin > 0.
PaybackDaysFromZeroMargin(total_investment, monthly_margin) ==
  IF Le(Zero, monthly_margin)
  THEN Trunc(FMul(FDiv(total_investment, monthly_margin), FromInt(30)))
  ELSE Zero

\* int((total_investment / monthly_margin) * 30) if monthly_margin > 0 else 0
PaybackDays(total_investment, monthly_margin) ==
  IF Gt(monthly_margin, Zero)
  THEN Trunc(PaybackFloat(total_investment, monthly_margin))
  ELSE Zero

\* The exception the first of the values xs that raised raises, "" when
\* none did.
FirstRaised(xs) ==
  IF \A i \in 1..Len(xs) : ~Raised(xs[i]) THEN ""
  ELSE xs[CHOOSE i \in 1..Len(xs) :
            Raised(xs[i]) /\ \A j \in 1..(i - 1) : ~Raised(xs[j])].exc

\* The ROIResults dataclass.
ROIResults(total_investment, training_costs, opportunity_costs, current_deals, target_deals, additional_deals, monthly_revenue, monthly_margin, annual_margin, roi_percentage, roi_multiple, payback_days, net_benefit) ==
  [total_investment |-> total_investment,
   training_costs |-> training_costs,
   opportunity_costs |-> opportunity_costs,
   current_deals |-> current_deals,
   target_deals |-> target_deals,
   additional_deals |-> additional_deals,
   monthly_revenue |-> monthly_revenue,
   monthly_margin |-> monthly_margin,
   annual_margin |-> annual_margin,
   roi_percentage |-> roi_percentage,
   roi_multiple |-> roi_multiple,
   payback_days |-> payback_days,
   net_benefit |-> net_benefit]

\* What calculate_roi(params) computes, statement by statement: the
\* exception it raises ("" for none) and the ROIResults it builds when it
\* raises none.
ComputeROI(params0) ==
  The({ The({ The({ The({ The({ The({ The({ The({
    IF exc # "" THEN [raised |-> exc, value |-> None]
    ELSE [raised |-> "",
          value |-> ROIResults(total_investment, training_costs,
                               opportunity_costs, current_deals, target_deals,
                               additional_deals, monthly_revenue,
                               monthly_margin, annual_margin, roi_percentage,
                               roi_multiple, payback_days, net_benefit)] :
      exc \in {FirstRaised(<<roi_percentage, roi_multiple, payback_days>>)} }) :
      roi_percentage \in {RoiPercentage(net_benefit, total_investment)},
      roi_multiple \in {RoiMultiple(net_benefit, total_investment)},
      payback_days \in {PaybackDays(total_investment, monthly_margin)} }) :
      net_benefit \in {NetBenefit(annual_margin, total_investment)} }) :
      annual_margin \in {AnnualMargin(monthly_margin)} }) :
      monthly_margin \in {MonthlyMargin(monthly_revenue, params.margin_rate)} }) :
      monthly_revenue \in {MonthlyRevenue(additional_deals, params.deal_value)} }) :
      total_investment \in {TotalInvestment(training_costs, opportunity_costs)},
      additional_deals \in {AdditionalDeals(target_deals, current_deals)} }) :
      params \in {params0},
      training_costs \in {TrainingCosts(params0)},
      opportunity_costs \in {OpportunityCosts(params0)},
      current_deals \in {Deals(params0.monthly_leads,
                               params0.current_close_rate)},
      target_deals \in {Deals(params0.monthly_leads,
                              params0.target_close_rate)} })

(***************************************************************************)
(* The scenarios the model runs the engine on.                             *)
(***************************************************************************)
MaxParticipants == 2
MaxRateSteps == 2

Pow2(e) == [k |-> "fin", s |-> 0, m |-> <<1>>, e |-> e]

\* The example values get_parameters_input falls back to.
Reference ==
  TrainingParameters(8, FromInt(3000), 150, FromInt(12), FromInt(20),
                     FromInt(12000), FromInt(25),
                     DefaultTrainingDays, FromInt(DefaultDailyRate))

\* A grid around the reference scenario: no or a negative number of
\* participants, a cost per person that cancels the opportunity cost, no
\* leads, close rates in either order, no deal value, no margin.
GridScenarios ==
  { TrainingParameters(p, FromInt(c), l, FromInt(12 + 4 * cr),
                       FromInt(12 + 4 * tr), FromInt(d), FromInt(mr),
                       DefaultTrainingDays, FromInt(DefaultDailyRate)) :
      p \in -1..MaxParticipants, c \in {-1200, 0, 3000}, l \in {0, 150},
      cr \in 0..MaxRateSteps, tr \in 0..MaxRateSteps,
      d \in {0, 12000}, mr \in {0, 25} }

\* Seven participants, a deal value of 1000 and a margin of 30 %: the
\* investment is 29400 and the monthly margin 3600.
SevenParticipants ==
  [Reference EXCEPT !.participants = 7, !.deal_value = FromInt(1000),
                    !.margin_rate = FromInt(30)]

\* Values the engine does not validate: negative leads, a close rate above
\* 100 %, a negative margin rate.
OutOfRange ==
  { [Reference EXCEPT !.monthly_leads = -150],
    [Reference EXCEPT !.target_close_rate = FromInt(120)],
    [Reference EXCEPT !.margin_rate = FromInt(-25)] }

\* A finite scenario with a cost per person of 2^1000 and a target close
\* rate of 2^-60 %.
HugeCost ==
  [Reference EXCEPT !.participants = 1, !.cost_per_person = Pow2(1000),
                    !.monthly_leads = 1, !.current_close_rate = Zero,
                    !.target_close_rate = Pow2(-60),
                    !.deal_value = FromInt(1), !.margin_rate = FromInt(1)]

EngineScenarios ==
  GridScenarios \cup OutOfRange \cup {Reference, SevenParticipants, HugeCost}

\* No participants: nothing is invested, the margin is the reference one.
NoParticipants == [Reference EXCEPT !.participants = 0]

\* The scenarios of the calls made one after the other, or at the same
\* time, on one calculator.
SessionScenarios == {Reference, NoParticipants, HugeCost}

(***************************************************************************)
(* The reports: the recommendation each one derives from the results, and  *)
(* the six analyses of run_scenario_analysis.                              *)
(***************************************************************************)
\* Float literals of the source.
Float(tenths) == FDiv(FromInt(tenths), FromInt(10))

\* print_results: roi_percentage > 100 and payback_days < 90, elif
\* roi_percentage > 50, else.
PrintTier(r) ==
  IF Gt(r.roi_percentage, FromInt(100)) /\ Lt(r.payback_days, FromInt(90))
  THEN "DURCHFUEHREN"
  ELSE IF Gt(r.roi_percentage, FromInt(50)) THEN "LOHNT SICH"
  ELSE "ZU NIEDRIG"

\* export_pdf, export_powerpoint and export_json: roi_percentage > 100,
\* elif roi_percentage > 50, else.
ExportTier(r) ==
  IF Gt(r.roi_percentage, FromInt(100)) THEN "DURCHFUEHREN"
  ELSE IF Gt(r.roi_percentage, FromInt(50)) THEN "LOHNT SICH"
  ELSE "ZU NIEDRIG"

\* The names run_scenario_analysis knows, in the order export_pdf writes them.
ScenarioNames ==
  <<"best", "worst", "realistic", "arguments", "risks", "margin">>

\* The values run_scenario_analysis(scenario) computes that can raise:
\* int(payback_days * 0.7), int(payback_days * 1.7),
\* monthly_revenue / additional_deals * margin_rate / 100 and
\* (annual_margin / total_investment - 1) * 100.
ScenarioValues(scenario, p, r) ==
  IF scenario = "best" THEN <<Trunc(FMul(r.payback_days, Float(7)))>>
  ELSE IF scenario = "worst" THEN <<Trunc(FMul(r.payback_days, Float(17)))>>
  ELSE IF scenario = "arguments"
       THEN <<FDiv(FMul(FDiv(r.monthly_revenue, r.additional_deals),
                        p.margin_rate), FromInt(100))>>
  ELSE IF scenario = "margin"
       THEN <<FMul(FSub(FDiv(r.annual_margin, r.total_investment),
                        FromInt(1)), FromInt(100))>>
  ELSE <<>>

\* What run_scenario_analysis(scenario) does on a calculator with stored
\* parameters p and results r: the exception it raises ("" for none) and
\* the text it returns.
ScenarioAnalysis(scenario, p, r) ==
  IF r = None THEN [raised |-> "", value |-> "Bitte zuerst eine Berechnung"]
  ELSE IF \A i \in 1..Len(ScenarioNames) : ScenarioNames[i] # scenario
       THEN [raised |-> "", value |-> "Unbekanntes Szenario"]
  ELSE The({ [raised |-> exc, value |-> IF exc = "" THEN scenario ELSE None] :
             exc \in {FirstRaised(ScenarioValues(scenario, p, r))} })

\* The exception the first of the analyses of names that raises raises.
RECURSIVE FirstAnalysisRaised(_, _, _)
FirstAnalysisRaised(names, p, r) ==
  IF names = <<>> THEN ""
  ELSE The({ IF exc # "" THEN exc ELSE FirstAnalysisRaised(Tail(names), p, r) :
             exc \in {ScenarioAnalysis(Head(names), p, r).raised} })

(***************************************************************************)
(* The calculator object and the calls made on it.                         *)
(***************************************************************************)
Threads == {"A", "B"}

VARIABLES
  parameters,   \* self.parameters: None or the TrainingParameters of the last call
  results,      \* self.results: None or the ROIResults last stored
  ret,          \* the last call: its name, argument, the file it opened for
                \* writing, the exception it raised, the value it returned
  returned,     \* scenario -> what the calls of calculate_roi on it returned,
                \* and whether there was more than one
  threads,      \* thread -> where it is in calculate_roi, and its locals
  main          \* the main program: where it is, the parameters entered, the
                \* recommendation print_results gave, how it ended

vars == <<parameters, results, ret, returned, threads, main>>

Outcome(op, arg, wrote, raised, value) ==
  [op |-> op, arg |-> arg, wrote |-> wrote, raised |-> raised, value |-> value]

Idle == [pc |-> "idle", params |-> None, out |-> None, value |-> None]

\* __init__
Init ==
  /\ parameters = None
  /\ results = None
  /\ ret = Outcome("__init__", None, "", "", None)
  /\ returned = [s \in SessionScenarios |-> [outcomes |-> {}, again |-> FALSE]]
  /\ threads = [t \in Threads |-> Idle]
  /\ main = [pc |-> "start", input |-> None, printed |-> "", ended |-> ""]

\* The parameters stored with the results, at the end, and so not at all by
\* a call that raises.
CalculateRoiStoringLast(params) ==
  \E out \in {ComputeROI(params)} :
    /\ parameters' = IF out.raised = "" THEN params ELSE parameters
    /\ results' = IF out.raised = "" THEN out.value ELSE results
    /\ ret' = Outcome("calculate_roi", params, "", out.raised,
                      IF out.raised = "" THEN results' ELSE None)

\* The value returned read from the field before the new results are
\* stored in it.
CalculateRoiReturningPrevious(params) ==
  \E out \in {ComputeROI(params)} :
    /\ parameters' = params
    /\ results' = IF out.raised = "" THEN out.value ELSE results
    /\ ret' = Outcome("calculate_roi", params, "", out.raised,
                      IF out.raised # "" THEN None
                      ELSE IF results = None THEN out.value ELSE results)

\* calculate_roi(params): the parameters are stored first; the results are
\* stored, and returned from the field, only when the computation raised
\* nothing.
CalculateRoi(params) ==
  \E out \in {ComputeROI(params)} :
    /\ parameters' = params
    /\ results' = IF out.raised = "" THEN out.value ELSE results
    /\ ret' = Outcome("calculate_roi", params, "", out.raised,
                      IF out.raised = "" THEN results' ELSE None)

\* One call of the engine on a calculator just constructed.
NextEngine ==
  \E params \in EngineScenarios :
    /\ ret.op = "__init__"
    /\ CalculateRoi(params)
    /\ UNCHANGED <<returned, threads, main>>

SpecEngine == Init /\ [][NextEngine]_vars

\* A call of calculate_roi in a session, what it returned or raised noted.
Calculate ==
  \E params \in SessionScenarios :
    /\ CalculateRoi(params)
    /\ returned' = [returned EXCEPT ![params] =
                      [outcomes |-> @.outcomes \cup
                         {[raised |-> ret'.raised, value |-> ret'.value]},
                       again |-> @.outcomes # {}]]
    /\ UNCHANGED <<threads, main>>

\* What print_results prints: that there is no calculation, or the
\* recommendation.
PrintOutcome ==
  Outcome("print_results", None, "", "",
          IF results = None THEN "Keine Berechnungen vorhanden"
          ELSE PrintTier(results))

\* print_results
PrintResults ==
  /\ ret' = PrintOutcome
  /\ UNCHANGED <<parameters, results, returned, threads, main>>

\* run_scenario_analysis(scenario)
RunScenarioAnalysis ==
  \E scenario \in {ScenarioNames[i] : i \in 1..Len(ScenarioNames)} \cup {"other"} :
    \E out \in {ScenarioAnalysis(scenario, parameters, results)} :
      /\ ret' = Outcome("run_scenario_analysis", scenario, "", out.raised,
                        out.value)
      /\ UNCHANGED <<parameters, results, returned, threads, main>>

\* What export_pdf does: the file is opened, the recommendation written,
\* then the six analyses; an analysis that raises leaves the file behind.
PdfOutcome ==
  IF results = None
  THEN Outcome("export_pdf", None, "", "", "Keine Berechnungen vorhanden")
  ELSE Outcome("export_pdf", None, "pdf",
               FirstAnalysisRaised(ScenarioNames, parameters, results),
               ExportTier(results))

\* What export_powerpoint does.
PowerpointOutcome ==
  IF results = None
  THEN Outcome("export_powerpoint", None, "", "",
               "Keine Berechnungen vorhanden")
  ELSE Outcome("export_powerpoint", None, "powerpoint", "",
               ExportTier(results))

\* What export_json does.
JsonOutcome ==
  IF results = None
  THEN Outcome("export_json", None, "", "", "Keine Berechnungen vorhanden")
  ELSE Outcome("export_json", None, "json", "", ExportTier(results))

\* export_pdf
ExportPdf ==
  /\ ret' = PdfOutcome
  /\ UNCHANGED <<parameters, results, returned, threads, main>>

\* export_powerpoint
ExportPowerpoint ==
  /\ ret' = PowerpointOutcome
  /\ UNCHANGED <<parameters, results, returned, threads, main>>

\* export_json
ExportJson ==
  /\ ret' = JsonOutcome
  /\ UNCHANGED <<parameters, results, returned, threads, main>>

\* The calls a session makes on one calculator, in any order.
Next ==
  \/ Calculate
  \/ PrintResults
  \/ RunScenarioAnalysis
  \/ ExportPdf
  \/ ExportPowerpoint
  \/ ExportJson

Spec == Init /\ [][Next]_vars

(***************************************************************************)
(* Two threads calling calculate_roi on one calculator.  A thread can be   *)
(* suspended between any two statements of the method; the statements that *)
(* touch the calculator are the stores of lines 81 and 104 and the read of *)
(* line 120.                                                               *)
(***************************************************************************)
\* calculate_roi(params) is entered.
Enter(t) ==
  \E params \in SessionScenarios :
    /\ threads[t].pc = "idle"
    /\ threads' = [threads EXCEPT ![t] = [@ EXCEPT !.pc = "line 81",
                                                   !.params = params]]
    /\ UNCHANGED <<parameters, results, ret, returned, main>>

\* self.parameters = params
StoreParameters(t) ==
  /\ threads[t].pc = "line 81"
  /\ parameters' = threads[t].params
  /\ threads' = [threads EXCEPT ![t] = [@ EXCEPT !.pc = "line 84"]]
  /\ UNCHANGED <<results, ret, returned, main>>

\* The locals are computed; an exception ends the call.
ComputeLocals(t) ==
  /\ threads[t].pc = "line 84"
  /\ \E out \in {ComputeROI(threads[t].params)} :
       threads' = [threads EXCEPT ![t] =
                     [@ EXCEPT !.pc = IF out.raised = "" THEN "line 104"
                                      ELSE out.raised,
                               !.out = out.value]]
  /\ UNCHANGED <<parameters, results, ret, returned, main>>

\* self.results = ROIResults(...)
StoreResults(t) ==
  /\ threads[t].pc = "line 104"
  /\ results' = threads[t].out
  /\ threads' = [threads EXCEPT ![t] = [@ EXCEPT !.pc = "line 120"]]
  /\ UNCHANGED <<parameters, ret, returned, main>>

\* return self.results
ReturnResults(t) ==
  /\ threads[t].pc = "line 120"
  /\ threads' = [threads EXCEPT ![t] = [@ EXCEPT !.pc = "returned",
                                                 !.value = results]]
  /\ UNCHANGED <<parameters, results, ret, returned, main>>

NextThreads ==
  \E t \in Threads :
    \/ Enter(t)
    \/ StoreParameters(t)
    \/ ComputeLocals(t)
    \/ StoreResults(t)
    \/ ReturnResults(t)

SpecThreads == Init /\ [][NextThreads]_vars

(***************************************************************************)
(* The main program: the parameters are entered, calculate_roi and         *)
(* print_results are called, then the interactive menu runs until it is    *)
(* left.  An exception that is not caught where it is raised leaves main.  *)
(***************************************************************************)
\* The target close rate equal to the current one: no additional deals.
EqualRates == [Reference EXCEPT !.target_close_rate = FromInt(12)]

\* A deal value of 2800: an ROI of 200 % and a payback of 120 days.
SlowPayback == [Reference EXCEPT !.deal_value = FromInt(2800)]

\* The parameters entered at the prompts of get_parameters_input.
MainScenarios ==
  {Reference, NoParticipants, EqualRates, SlowPayback, HugeCost}

\* The value of the first pass of the loop of line 645 that can raise:
\* ((temp_margin - total_investment) / total_investment) * 100 for the rate
\* int(target_close_rate) - 5.
ChartsFirstRoi(p, r) ==
  The({ FMul(FDiv(FSub(temp_margin, r.total_investment), r.total_investment),
             FromInt(100)) :
        temp_margin \in
          { FMul(FMul(FMul(FSub(FMul(FromInt(p.monthly_leads),
                                     FDiv(rate, FromInt(100))),
                                r.current_deals),
                           p.deal_value),
                      FDiv(p.margin_rate, FromInt(100))),
                 FromInt(12)) :
            rate \in {FSub(Trunc(p.target_close_rate), FromInt(5))} } })

\* What create_charts does when matplotlib is there: the sensitivity loop
\* runs before the file is saved.
ChartsOutcome ==
  IF results = None
  THEN Outcome("create_charts", None, "", "", "Keine Berechnungen vorhanden")
  ELSE The({ Outcome("create_charts", None, IF exc = "" THEN "png" ELSE "",
                     exc, IF exc = "" THEN "Diagramme gespeichert" ELSE None) :
             exc \in {FirstRaised(<<ChartsFirstRoi(parameters, results)>>)} })

\* The call just made returned: the menu goes on; it raised: main is left.
AfterCall ==
  main' = IF ret'.raised = "" THEN [main EXCEPT !.pc = "continue"]
          ELSE [main EXCEPT !.pc = "exited", !.ended = ret'.raised]

\* get_parameters_input
GetParametersInput ==
  \E params \in MainScenarios :
    /\ main.pc = "start"
    /\ main' = [main EXCEPT !.pc = "calculate", !.input = params]
    /\ UNCHANGED <<parameters, results, ret, returned, threads>>

\* results = calculator.calculate_roi(parameters)
MainCalculateRoi ==
  /\ main.pc = "calculate"
  /\ CalculateRoi(main.input)
  /\ main' = IF ret'.raised = "" THEN [main EXCEPT !.pc = "print_results"]
             ELSE [main EXCEPT !.pc = "exited", !.ended = ret'.raised]
  /\ UNCHANGED <<returned, threads>>

\* calculator.print_results()
MainPrintResults ==
  /\ main.pc = "print_results"
  /\ ret' = PrintOutcome
  /\ main' = [main EXCEPT !.pc = "menu", !.printed = ret'.value]
  /\ UNCHANGED <<parameters, results, returned, threads>>

\* Choice '0' of the menu.
MenuQuit ==
  /\ main.pc = "menu"
  /\ main' = [main EXCEPT !.pc = "exited", !.ended = "0"]
  /\ UNCHANGED <<parameters, results, ret, returned, threads>>

\* Choices '1' to '6' of the menu.
MenuScenario ==
  \E i \in 1..Len(ScenarioNames) :
    \E out \in {ScenarioAnalysis(ScenarioNames[i], parameters, results)} :
      /\ main.pc = "menu"
      /\ ret' = Outcome("run_scenario_analysis", ScenarioNames[i], "",
                        out.raised, out.value)
      /\ AfterCall
      /\ UNCHANGED <<parameters, results, returned, threads>>

\* Choice '7' of the menu.
MenuExport ==
  /\ main.pc = "menu"
  /\ main' = [main EXCEPT !.pc = "export_menu"]
  /\ UNCHANGED <<parameters, results, ret, returned, threads>>

\* Any other choice of the menu.
MenuInvalid ==
  /\ main.pc = "menu"
  /\ main' = [main EXCEPT !.pc = "continue"]
  /\ UNCHANGED <<parameters, results, ret, returned, threads>>

\* Choices '1', '2' and '3' of the export menu.
ExportMenuFile ==
  \E out \in {PdfOutcome, PowerpointOutcome, JsonOutcome} :
    /\ main.pc = "export_menu"
    /\ ret' = out
    /\ AfterCall
    /\ UNCHANGED <<parameters, results, returned, threads>>

\* Choice '4' of the export menu, with matplotlib.
ExportMenuCharts ==
  /\ main.pc = "export_menu"
  /\ ret' = ChartsOutcome
  /\ AfterCall
  /\ UNCHANGED <<parameters, results, returned, threads>>

\* Choice '4' without matplotlib, choice '0' and any other choice of the
\* export menu.
ExportMenuBack ==
  /\ main.pc = "export_menu"
  /\ main' = [main EXCEPT !.pc = "continue"]
  /\ UNCHANGED <<parameters, results, ret, returned, threads>>

\* Enter at the prompt that follows a choice.
PressEnter ==
  /\ main.pc = "continue"
  /\ main' = [main EXCEPT !.pc = "menu"]
  /\ UNCHANGED <<parameters, results, ret, returned, threads>>

\* KeyboardInterrupt at one of the prompts of the menu.
Interrupt ==
  /\ main.pc \in {"menu", "export_menu", "continue"}
  /\ main' = [main EXCEPT !.pc = "exited", !.ended = "KeyboardInterrupt"]
  /\ UNCHANGED <<parameters, results, ret, returned, threads>>

NextMain ==
  \/ GetParametersInput
  \/ MainCalculateRoi
  \/ MainPrintResults
  \/ MenuQuit
  \/ MenuScenario
  \/ MenuExport
  \/ MenuInvalid
  \/ ExportMenuFile
  \/ ExportMenuCharts
  \/ ExportMenuBack
  \/ PressEnter
  \/ Interrupt

SpecMain == Init /\ [][NextMain]_vars

(***************************************************************************)
(* The properties of calculate_roi.                                        *)
(***************************************************************************)
\* The last call was calculate_roi; it returned.
Called == ret.op = "calculate_roi"
Returned == Called /\ ret.raised = ""

\* The total investment and the monthly margin of a scenario.
ScenarioInvestment(params) ==
  TotalInvestment(TrainingCosts(params), OpportunityCosts(params))
ScenarioMargin(params) ==
  MonthlyMargin(
    MonthlyRevenue(
      AdditionalDeals(Deals(params.monthly_leads, params.target_close_rate),
                      Deals(params.monthly_leads, params.current_close_rate)),
      params.deal_value),
    params.margin_rate)

\* C1: a call on a scenario whose total investment is 0 does not raise and
\* returns roi_percentage = 0 and roi_multiple = 0.
C1_ZeroInvestmentGivesZeroRoi ==
  (Called /\ Eq(ScenarioInvestment(ret.arg), Zero)) =>
    /\ ret.raised = ""
    /\ ret.value.roi_percentage = Zero
    /\ ret.value.roi_multiple = Zero

\* C1: a call on a scenario with participants, no investment and a positive
\* annual margin has returned an ROI of 0.
C1_Witness ==
  /\ Returned
  /\ ret.arg.participants # 0
  /\ ret.value.total_investment = Zero
  /\ Gt(ret.value.annual_margin, Zero)
  /\ ret.value.roi_percentage = Zero
  /\ ret.value.roi_multiple = Zero

\* The quotient net_benefit / total_investment of the results r, and a
\* hundred times it.
RoiQuotient(r) == FDiv(r.net_benefit, r.total_investment)
RoiQuotientPercent(r) == FMul(RoiQuotient(r), FromInt(100))

\* C2 as claimed: whenever the total investment is not 0, negative too,
\* roi_percentage is net_benefit / total_investment * 100 and roi_multiple
\* is net_benefit / total_investment.
C2_RoiUnlessInvestmentZero ==
  (Returned /\ ~Eq(ret.value.total_investment, Zero)) =>
    /\ ret.value.roi_percentage = RoiQuotientPercent(ret.value)
    /\ ret.value.roi_multiple = RoiQuotient(ret.value)

\* C2: when the total investment is positive, roi_multiple is
\* net_benefit / total_investment and roi_percentage is that times 100;
\* when it is 0 or negative, both are 0.
C2_RoiWhenInvestmentPositive ==
  Returned =>
    IF Gt(ret.value.total_investment, Zero)
    THEN /\ ret.value.roi_multiple = RoiQuotient(ret.value)
         /\ ret.value.roi_percentage = RoiQuotientPercent(ret.value)
         /\ ret.value.roi_percentage = FMul(ret.value.roi_multiple, FromInt(100))
    ELSE /\ ret.value.roi_percentage = Zero
         /\ ret.value.roi_multiple = Zero

\* C2: a call on a scenario with a negative investment and a net benefit
\* that is not 0 has returned an ROI of 0.
C2_Witness ==
  /\ Returned
  /\ Lt(ret.value.total_investment, Zero)
  /\ ~Eq(ret.value.net_benefit, Zero)
  /\ ret.value.roi_percentage = Zero
  /\ ret.value.roi_multiple = Zero

\* C3: a call on a scenario whose monthly margin is 0 or negative does not
\* raise and returns payback_days = 0.
C3_NoMarginGivesZeroPayback ==
  (Called /\ Le(ScenarioMargin(ret.arg), Zero)) =>
    /\ ret.raised = ""
    /\ ret.value.payback_days = Zero

\* C3: a call on a scenario with an investment and no monthly margin has
\* returned a payback of 0 days.
C3_Witness ==
  /\ Returned
  /\ Gt(ret.value.total_investment, Zero)
  /\ ret.value.monthly_margin = Zero
  /\ ret.value.payback_days = Zero

\* x <= y and x < y for finite numbers, decided exactly.
ExactLe(x, y) == CmpFin(x, y) <= 0
ExactLt(x, y) == CmpFin(x, y) < 0

\* C4 as claimed, for the scenarios whose investment is not negative: when
\* the monthly margin is positive, payback_days is the floor of
\* total_investment / monthly_margin * 30:
\* payback_days * monthly_margin <= 30 * total_investment
\*                               < (payback_days + 1) * monthly_margin.
C4_PaybackIsTheFloor ==
  (/\ Returned
   /\ Gt(ret.value.monthly_margin, Zero)
   /\ Le(Zero, ret.value.total_investment)) =>
    /\ ExactLe(ExactMul(ret.value.payback_days, ret.value.monthly_margin),
               ExactMul(FromInt(30), ret.value.total_investment))
    /\ ExactLt(ExactMul(FromInt(30), ret.value.total_investment),
               ExactMul(ExactAdd(ret.value.payback_days, FromInt(1)),
                        ret.value.monthly_margin))

\* C8 as claimed: whenever the target close rate is below the current one,
\* the call does not raise and additional_deals, monthly_margin,
\* annual_margin and roi_percentage are negative, additional_deals being
\* target_deals - current_deals.
C8_LowerTargetGivesNegativeResults ==
  (Called /\ Lt(ret.arg.target_close_rate, ret.arg.current_close_rate)) =>
    /\ ret.raised = ""
    /\ ret.value.additional_deals =
         FSub(ret.value.target_deals, ret.value.current_deals)
    /\ Lt(ret.value.additional_deals, Zero)
    /\ Lt(ret.value.monthly_margin, Zero)
    /\ Lt(ret.value.annual_margin, Zero)
    /\ Lt(ret.value.roi_percentage, Zero)

\* C8: whenever the target close rate is below the current one and the
\* leads, the deal value and the margin rate are not negative, the call does
\* not raise, additional_deals is target_deals - current_deals, and
\* additional_deals, monthly_margin and annual_margin are negative or 0;
\* roi_percentage is negative when the investment is positive and 0 when it
\* is not.
C8_LowerTargetGivesNoGain ==
  (/\ Called
   /\ Lt(ret.arg.target_close_rate, ret.arg.current_close_rate)
   /\ ret.arg.monthly_leads >= 0
   /\ Le(Zero, ret.arg.deal_value)
   /\ Le(Zero, ret.arg.margin_rate)) =>
    /\ ret.raised = ""
    /\ ret.value.additional_deals =
         FSub(ret.value.target_deals, ret.value.current_deals)
    /\ Le(ret.value.additional_deals, Zero)
    /\ Le(ret.value.monthly_margin, Zero)
    /\ Le(ret.value.annual_margin, Zero)
    /\ IF Gt(ret.value.total_investment, Zero)
       THEN Lt(ret.value.roi_percentage, Zero)
       ELSE ret.value.roi_percentage = Zero

\* C8: a call with the target close rate below the current one and a margin
\* rate of 0 has returned fewer deals, a negative ROI and margins of 0.
C8_Witness ==
  /\ Returned
  /\ Lt(ret.arg.target_close_rate, ret.arg.current_close_rate)
  /\ Lt(ret.value.additional_deals, Zero)
  /\ ret.value.monthly_margin = Zero
  /\ ret.value.annual_margin = Zero
  /\ Lt(ret.value.roi_percentage, Zero)

\* C9 as claimed: a call of calculate_roi never raises and returns a
\* ROIResults.
C9_NeverRaises == Called => (ret.raised = "" /\ ret.value # None)

\* C10: for the reference scenario calculate_roi returns training_costs
\* 24000, opportunity_costs 9600, total_investment 33600, current_deals 18,
\* target_deals 30, additional_deals 12, monthly_revenue 144000,
\* monthly_margin 36000, annual_margin 432000, net_benefit 398400, a
\* roi_percentage between 1185 and 1186 and payback_days 28.
C10_ReferenceScenario ==
  (Called /\ ret.arg = Reference) =>
    /\ ret.raised = ""
    /\ ret.value.training_costs = FromInt(24000)
    /\ ret.value.opportunity_costs = FromInt(9600)
    /\ ret.value.total_investment = FromInt(33600)
    /\ ret.value.current_deals = FromInt(18)
    /\ ret.value.target_deals = FromInt(30)
    /\ ret.value.additional_deals = FromInt(12)
    /\ ret.value.monthly_revenue = FromInt(144000)
    /\ ret.value.monthly_margin = FromInt(36000)
    /\ ret.value.annual_margin = FromInt(432000)
    /\ ret.value.net_benefit = FromInt(398400)
    /\ Lt(FromInt(1185), ret.value.roi_percentage)
    /\ Lt(ret.value.roi_percentage, FromInt(1186))
    /\ ret.value.payback_days = FromInt(28)

\* C10: the call on the reference scenario has returned a payback of 28 days.
C10_Witness ==
  /\ Returned
  /\ ret.arg = Reference
  /\ ret.arg.participants = 8
  /\ ret.arg.training_days = 3
  /\ ret.value.payback_days = FromInt(28)

\* C5 as claimed: however two calls on one calculator interleave, a call
\* that returns returns the ROIResults computed from its own scenario, and
\* once both have returned the results stored are those of the scenario
\* stored.
C5_ConcurrentCallsKeepApart ==
  /\ \A t \in Threads :
       threads[t].pc = "returned" => threads[t].value = threads[t].out
  /\ (\A t \in Threads : threads[t].pc = "returned") =>
       \E t \in Threads :
         parameters = threads[t].params /\ results = threads[t].out

C7_SameScenarioSameResults ==
  \A s \in SessionScenarios :
    \A x, y \in returned[s].outcomes : x = y

\* C7: calculate_roi has returned results for the reference scenario a
\* second time, after calls on another scenario and an export.
C7_Witness ==
  /\ returned[Reference].again
  /\ returned[NoParticipants].outcomes # {}
  /\ ret.op = "export_pdf"
  /\ ret.wrote = "pdf"
  /\ parameters = Reference
  /\ [raised |-> "", value |-> results] \in returned[Reference].outcomes

\* C11: the results returned satisfy total_investment = training_costs +
\* opportunity_costs, training_costs = participants * cost_per_person,
\* opportunity_costs = participants * training_days * daily_rate and
\* net_benefit = 12 * monthly_margin - total_investment (each operation a
\* float one).
C11_InvestmentAndNetBenefit ==
  Returned =>
    /\ ret.value.total_investment =
         FAdd(ret.value.training_costs, ret.value.opportunity_costs)
    /\ ret.value.training_costs =
         FMul(FromInt(ret.arg.participants), ret.arg.cost_per_person)
    /\ ret.value.opportunity_costs =
         FMul(FromInt(ret.arg.participants * ret.arg.training_days),
              ret.arg.daily_rate)
    /\ ret.value.net_benefit =
         FSub(FMul(FromInt(12), ret.value.monthly_margin),
              ret.value.total_investment)

\* C11: a call has returned an investment made of training costs and of
\* opportunity costs, and a net benefit that is not the annual margin.
C11_Witness ==
  /\ Returned
  /\ Gt(ret.value.training_costs, Zero)
  /\ Gt(ret.value.opportunity_costs, Zero)
  /\ Gt(ret.value.total_investment, ret.value.training_costs)
  /\ Gt(ret.value.monthly_margin, Zero)
  /\ Lt(ret.value.net_benefit, FMul(FromInt(12), ret.value.monthly_margin))

(***************************************************************************)
(* The properties of the reports and of the calculator's fields.           *)
(***************************************************************************)
\* C12 as claimed: once calculate_roi has stored results,
\* run_scenario_analysis returns its text without raising for each of the
\* six names, and the unknown-scenario message for any other name, and
\* export_pdf completes.
C12_AnalysesNeverRaise ==
  results # None =>
    /\ ret.op = "run_scenario_analysis" =>
         /\ ret.raised = ""
         /\ ret.value = IF \E i \in 1..Len(ScenarioNames) :
                              ScenarioNames[i] = ret.arg
                         THEN ret.arg ELSE "Unbekanntes Szenario"
    /\ ret.op = "export_pdf" => (ret.raised = "" /\ ret.wrote = "pdf")

\* C14 as claimed: results are stored only with parameters, the results
\* stored are the ROI of the parameters stored, also after a call of
\* calculate_roi that raised, and no call but calculate_roi changes either
\* field.
C14_ResultsBelongToParameters ==
  [][/\ results' # None =>
          /\ parameters' # None
          /\ [raised |-> "", value |-> results'] = ComputeROI(parameters')
     /\ ret'.op # "calculate_roi" =>
          (parameters' = parameters /\ results' = results)]_vars

\* The calls that report: all but the constructor and calculate_roi.
Reported == ret.op \notin {"__init__", "calculate_roi"}

\* C15 as claimed: while no call of calculate_roi has returned, a report or
\* an export says that there is no calculation (run_scenario_analysis: to
\* run one first), writes no file, does not raise and leaves parameters and
\* results unset.
C15_NothingToReport ==
  (Reported /\ \A s \in SessionScenarios :
                 \A x \in returned[s].outcomes : x.raised # "") =>
    /\ ret.value = IF ret.op = "run_scenario_analysis"
                   THEN "Bitte zuerst eine Berechnung"
                   ELSE "Keine Berechnungen vorhanden"
    /\ ret.wrote = ""
    /\ ret.raised = ""
    /\ parameters = None
    /\ results = None

(***************************************************************************)
(* The properties of the main program.                                     *)
(***************************************************************************)
\* The three exports that write a recommendation to a file.
Exports == {"export_pdf", "export_powerpoint", "export_json"}

\* The menu has been reached: print_results has printed its recommendation.
MenuReached == main.printed # ""

\* C13: the recommendation an export writes to its file is the one
\* print_results printed for the same results.
C13_SameRecommendationEverywhere ==
  (MenuReached /\ ret.op \in Exports /\ ret.wrote # "") =>
    ret.value = main.printed

\* C16: once the menu is running, the program ends only by choice '0' or by
\* a KeyboardInterrupt; no other choice leaves the loop.
C16_MenuEndsOnlyOnRequest ==
  (MenuReached /\ main.pc = "exited") =>
    main.ended \in {"0", "KeyboardInterrupt"}

====
